---- MODULE Spec2Model ----
(***************************************************************************)
(* botzy-2api: an OpenAI-compatible proxy in front of one upstream chat    *)
(* service (src/index.ts).                                                 *)
(*                                                                         *)
(* Text is modelled as a sequence of one-character strings, a byte stream  *)
(* as a sequence of bytes (an ASCII byte is written as its character, the  *)
(* two bytes of a two-byte UTF-8 character as "xCE" and "xA9").  A JSON    *)
(* value is a record [k |-> kind, v |-> payload].                          *)
(***************************************************************************)
EXTENDS Integers, Sequences, FiniteSets, TLC

(***************************************************************************)
(* Bounds of the model.                                                    *)
(***************************************************************************)
\* Lines in an upstream body of the relay specification.
MaxLines == 2
\* Lines in an upstream body of the end-to-end specification.
MaxHttpLines == 1
\* Bytes in one upstream chunk (besides the chunks that run to the next
\* newline or to the end of the body).
MaxChunk == 2
\* Lines in an upstream body of the per-line specification.
MaxRuleLines == 1

(***************************************************************************)
(* Characters and strings.                                                 *)
(***************************************************************************)
LF == "\n"
CR == "\r"
TAB == "\t"
QUOTE == "\""
BACKSLASH == "\\"
\* U+FFFD, what a UTF-8 decoder puts for a malformed sequence.
REPLACEMENT == "xFFFD"
\* The two bytes of the UTF-8 encoding of the character OMEGA.
OmegaLead == "xCE"
OmegaCont == "xA9"
OMEGA == "xOmega"

\* String.prototype.trim's white space, as far as the model's alphabet goes.
TrimSpace == {" ", TAB, LF, CR}

\* s.startsWith(p)
StartsWith(s, p) ==
  /\ Len(s) >= Len(p)
  /\ SubSeq(s, 1, Len(p)) = p

\* s.substring(n): the characters from index n (0-based) on.
Substring(s, n) == SubSeq(s, n + 1, Len(s))

\* s.includes(p)
Includes(s, p) ==
  \E i \in 1..(Len(s) - Len(p) + 1) : SubSeq(s, i, i + Len(p) - 1) = p

RECURSIVE TrimStart(_)
TrimStart(s) ==
  IF s # <<>> /\ Head(s) \in TrimSpace THEN TrimStart(Tail(s)) ELSE s

RECURSIVE TrimEnd(_)
TrimEnd(s) ==
  IF s # <<>> /\ s[Len(s)] \in TrimSpace
  THEN TrimEnd(SubSeq(s, 1, Len(s) - 1))
  ELSE s

\* s.trim()
Trim(s) == TrimEnd(TrimStart(s))

\* The indexes of the newlines of s, in order.
NewlineIndexes(s) == SelectSeq([i \in 1..Len(s) |-> i], LAMBDA i : s[i] = LF)

\* s.split('\n'): the segments between the newlines; always at least one.
Split(s) ==
  LET nl == NewlineIndexes(s)
  IN  [j \in 1..(Len(nl) + 1) |->
         SubSeq(s, IF j = 1 THEN 1 ELSE nl[j - 1] + 1,
                   IF j = Len(nl) + 1 THEN Len(s) ELSE nl[j] - 1)]

\* The concatenation of a sequence of strings.
RECURSIVE Concat(_)
Concat(ss) == IF ss = <<>> THEN <<>> ELSE Head(ss) \o Concat(Tail(ss))

(***************************************************************************)
(* JSON values and JSON.parse (objects, arrays, strings with the simple    *)
(* escapes, non-negative integers, true, false, null).                     *)
(***************************************************************************)
JUndefined == [k |-> "undefined", v |-> <<>>]
JNull == [k |-> "null", v |-> <<>>]
JBool(b) == [k |-> "boolean", v |-> b]
\* A number keeps its digits: that is also its String() form.
JNumber(digits) == [k |-> "number", v |-> digits]
JString(chars) == [k |-> "string", v |-> chars]
JArray(elems) == [k |-> "array", v |-> elems]
\* An object is the sequence of its <<key, value>> members in source order.
JObject(members) == [k |-> "object", v |-> members]

ParseFail == [ok |-> FALSE, val |-> JUndefined, next |-> 0]
ParseOk(val, next) == [ok |-> TRUE, val |-> val, next |-> next]

JsonSpace == {" ", TAB, LF, CR}
Digits == {"0", "1", "2", "3", "4", "5", "6", "7", "8", "9"}

RECURSIVE SkipWs(_, _)
SkipWs(s, i) ==
  IF i <= Len(s) /\ s[i] \in JsonSpace THEN SkipWs(s, i + 1) ELSE i

\* The character an escape \c stands for.
Unescape(c) ==
  CASE c = "n" -> LF
    [] c = "r" -> CR
    [] c = "t" -> TAB
    [] OTHER -> c

\* The characters of a string literal from index i (after the opening quote).
RECURSIVE ParseChars(_, _, _)
ParseChars(s, i, acc) ==
  IF i > Len(s) THEN ParseFail
  ELSE IF s[i] = QUOTE THEN ParseOk(JString(acc), i + 1)
  ELSE IF s[i] = BACKSLASH THEN
    IF i + 1 <= Len(s) /\ s[i + 1] \in {QUOTE, BACKSLASH, "/", "n", "r", "t"}
    THEN ParseChars(s, i + 2, Append(acc, Unescape(s[i + 1])))
    ELSE ParseFail
  ELSE IF s[i] \in {LF, CR, TAB} THEN ParseFail
  ELSE ParseChars(s, i + 1, Append(acc, s[i]))

RECURSIVE ParseDigits(_, _, _)
ParseDigits(s, i, acc) ==
  IF i <= Len(s) /\ s[i] \in Digits
  THEN ParseDigits(s, i + 1, Append(acc, s[i]))
  ELSE ParseOk(JNumber(acc), i)

ParseLiteral(s, i, word, val) ==
  IF i + Len(word) - 1 <= Len(s) /\ SubSeq(s, i, i + Len(word) - 1) = word
  THEN ParseOk(val, i + Len(word))
  ELSE ParseFail

RECURSIVE ParseValue(_, _)
RECURSIVE ParseElements(_, _, _)
RECURSIVE ParseMembers(_, _, _)

\* The elements of an array from index i (after "[" or after a comma).
ParseElements(s, i, acc) ==
  LET e == ParseValue(s, SkipWs(s, i))
      j == SkipWs(s, e.next)
  IN  IF ~e.ok \/ j > Len(s) THEN ParseFail
      ELSE IF s[j] = "," THEN ParseElements(s, j + 1, Append(acc, e.val))
      ELSE IF s[j] = "]" THEN ParseOk(JArray(Append(acc, e.val)), j + 1)
      ELSE ParseFail

\* The members of an object from index i (after "{" or after a comma).
ParseMembers(s, i, acc) ==
  LET i1 == SkipWs(s, i)
      key == IF i1 <= Len(s) /\ s[i1] = QUOTE
             THEN ParseChars(s, i1 + 1, <<>>) ELSE ParseFail
      i2 == SkipWs(s, key.next)
      val == IF key.ok /\ i2 <= Len(s) /\ s[i2] = ":"
             THEN ParseValue(s, SkipWs(s, i2 + 1)) ELSE ParseFail
      j == SkipWs(s, val.next)
      got == Append(acc, <<key.val.v, val.val>>)
  IN  IF ~val.ok \/ j > Len(s) THEN ParseFail
      ELSE IF s[j] = "," THEN ParseMembers(s, j + 1, got)
      ELSE IF s[j] = "}" THEN ParseOk(JObject(got), j + 1)
      ELSE ParseFail

ParseValue(s, i) ==
  IF i > Len(s) THEN ParseFail
  ELSE IF s[i] = "{" THEN
    LET j == SkipWs(s, i + 1)
    IN  IF j <= Len(s) /\ s[j] = "}" THEN ParseOk(JObject(<<>>), j + 1)
        ELSE ParseMembers(s, i + 1, <<>>)
  ELSE IF s[i] = "[" THEN
    LET j == SkipWs(s, i + 1)
    IN  IF j <= Len(s) /\ s[j] = "]" THEN ParseOk(JArray(<<>>), j + 1)
        ELSE ParseElements(s, i + 1, <<>>)
  ELSE IF s[i] = QUOTE THEN ParseChars(s, i + 1, <<>>)
  ELSE IF s[i] = "0" THEN ParseOk(JNumber(<<"0">>), i + 1)
  ELSE IF s[i] \in Digits THEN ParseDigits(s, i, <<>>)
  ELSE IF s[i] = "t" THEN ParseLiteral(s, i, <<"t", "r", "u", "e">>, JBool(TRUE))
  ELSE IF s[i] = "f"
    THEN ParseLiteral(s, i, <<"f", "a", "l", "s", "e">>, JBool(FALSE))
  ELSE IF s[i] = "n" THEN ParseLiteral(s, i, <<"n", "u", "l", "l">>, JNull)
  ELSE ParseFail

\* JSON.parse(s): [ok |-> FALSE] stands for the SyntaxError it throws.
JSONParse(s) ==
  LET r == ParseValue(s, SkipWs(s, 1))
  IN  IF r.ok /\ SkipWs(s, r.next) = Len(s) + 1
      THEN [ok |-> TRUE, val |-> r.val]
      ELSE [ok |-> FALSE, val |-> JUndefined]

\* The last member of an object with the given key (a repeated key: the last wins).
RECURSIVE Member(_, _)
Member(members, key) ==
  IF members = <<>> THEN JUndefined
  ELSE IF members[Len(members)][1] = key THEN members[Len(members)][2]
  ELSE Member(SubSeq(members, 1, Len(members) - 1), key)

\* v[key] for a value that is neither null nor undefined and a key that is no
\* index: only an object has such a property.
Get(v, key) == IF v.k = "object" THEN Member(v.v, key) ELSE JUndefined

\* v[0] for a value that is neither null nor undefined.
GetIndex0(v) ==
  IF v.k = "array" THEN (IF v.v = <<>> THEN JUndefined ELSE v.v[1])
  ELSE IF v.k = "string" THEN (IF v.v = <<>> THEN JUndefined ELSE JString(<<v.v[1]>>))
  ELSE IF v.k = "object" THEN Member(v.v, <<"0">>)
  ELSE JUndefined

Nullish(v) == v.k \in {"undefined", "null"}

\* v?.key
OptGet(v, key) == IF Nullish(v) THEN JUndefined ELSE Get(v, key)

\* v?.[0]
OptIndex0(v) == IF Nullish(v) THEN JUndefined ELSE GetIndex0(v)

\* ToBoolean(v)
Truthy(v) ==
  CASE v.k \in {"undefined", "null"} -> FALSE
    [] v.k = "boolean" -> v.v
    [] v.k = "number" -> v.v # <<"0">>
    [] v.k = "string" -> v.v # <<>>
    [] OTHER -> TRUE

\* ToString(v), which is what `str += v` appends.
RECURSIVE ToJSString(_)
RECURSIVE JoinElements(_)
JoinElements(elems) ==
  IF elems = <<>> THEN <<>>
  ELSE (IF Nullish(Head(elems)) THEN <<>> ELSE ToJSString(Head(elems)))
       \o (IF Len(elems) > 1 THEN <<",">> ELSE <<>>)
       \o JoinElements(Tail(elems))

ToJSString(v) ==
  CASE v.k = "string" -> v.v
    [] v.k = "number" -> v.v
    [] v.k = "boolean" -> (IF v.v THEN <<"t", "r", "u", "e">>
                           ELSE <<"f", "a", "l", "s", "e">>)
    [] v.k = "null" -> <<"n", "u", "l", "l">>
    [] v.k = "undefined" -> <<"u", "n", "d", "e", "f", "i", "n", "e", "d">>
    [] v.k = "array" -> JoinElements(v.v)
    [] OTHER -> <<"[", "o", "b", "j", "e", "c", "t", " ", "O", "b", "j", "e", "c", "t", "]">>

(***************************************************************************)
(* Configuration (CONFIG, read once at process start).                     *)
(***************************************************************************)
\* CONFIG.API_MASTER_KEY, at its default.
API_MASTER_KEY == <<"1">>
\* CONFIG.DEFAULT_MODEL, at its default (its two superscript characters are
\* written "M" and "2").
DEFAULT_MODEL == <<"L", "1", "T", "3", "-", OMEGA, "M", "2">>

Key_choices == <<"c", "h", "o", "i", "c", "e", "s">>
Key_delta == <<"d", "e", "l", "t", "a">>
Key_content == <<"c", "o", "n", "t", "e", "n", "t">>
Key_model == <<"m", "o", "d", "e", "l">>
Key_messages == <<"m", "e", "s", "s", "a", "g", "e", "s">>
Key_stream == <<"s", "t", "r", "e", "a", "m">>

\* The 'data:' prefix of an upstream event line.
DataPrefix == <<"d", "a", "t", "a", ":">>
\* The upstream's terminator payload.
DoneToken == <<"[", "D", "O", "N", "E", "]">>
EventStreamType ==
  <<"t", "e", "x", "t", "/", "e", "v", "e", "n", "t", "-", "s", "t", "r", "e", "a", "m">>
BearerPrefix == <<"B", "e", "a", "r", "e", "r", " ">>
V1Prefix == <<"/", "v", "1", "/">>
PathRoot == <<"/">>
PathHealth == <<"/", "h", "e", "a", "l", "t", "h">>
PathModels == <<"/", "v", "1", "/", "m", "o", "d", "e", "l", "s">>
PathChat ==
  <<"/", "v", "1", "/", "c", "h", "a", "t", "/", "c", "o", "m", "p", "l", "e", "t", "i", "o", "n", "s">>

\* a || b
OrElse(a, b) == IF Truthy(a) THEN a ELSE b

(***************************************************************************)
(* UTF-8 decoding, for the one two-byte character of the alphabet.         *)
(***************************************************************************)
\* What the decoder puts out on reaching byte i of `bytes`: the byte's
\* character, OMEGA on the second byte of its encoding, U+FFFD for a lead
\* byte that no continuation byte follows and for a continuation byte that
\* follows no lead byte, nothing (<<>>) for a lead byte it has to wait on.
DecodedAt(bytes, i) ==
  IF bytes[i] = OmegaLead THEN
    (IF i < Len(bytes) /\ bytes[i + 1] # OmegaCont THEN <<REPLACEMENT>> ELSE <<>>)
  ELSE IF bytes[i] = OmegaCont THEN
    (IF i > 1 /\ bytes[i - 1] = OmegaLead THEN <<OMEGA>> ELSE <<REPLACEMENT>>)
  ELSE <<bytes[i]>>

\* The decoder run over `bytes`: the text it puts out and the bytes of an
\* incomplete character it holds at the end.
Decode(bytes) ==
  LET each == [i \in 1..Len(bytes) |-> DecodedAt(bytes, i)]
      put == SelectSeq(each, LAMBDA c : c # <<>>)
  IN  [text |-> [i \in 1..Len(put) |-> put[i][1]],
       pending |-> IF bytes # <<>> /\ bytes[Len(bytes)] = OmegaLead
                   THEN <<OmegaLead>> ELSE <<>>]

\* decoder.decode(chunk, { stream: true }): the bytes held from the calls
\* before come first, and an incomplete character at the end of the chunk is
\* held for the next call.
DecodeStream(pending, chunk) == Decode(pending \o chunk)

\* response.text(): the whole body decoded, an incomplete character at its
\* end replaced.
DecodeText(bytes) ==
  LET d == Decode(bytes)
  IN  IF d.pending # <<>> THEN Append(d.text, REPLACEMENT) ELSE d.text

(***************************************************************************)
(* Request Adapter.                                                        *)
(***************************************************************************)
FixedSettings ==
  [avatar |-> JNull, name |-> <<>>, nickname |-> <<>>, age |-> 0, gender |-> "other"]

NoPayload ==
  [task |-> "", model |-> JUndefined, messages |-> JUndefined,
   imageUrl |-> JUndefined, settings |-> FixedSettings]

\* requestData.model || CONFIG.DEFAULT_MODEL
ModelOrDefault(requestData) ==
  OrElse(Get(requestData, Key_model), JString(DEFAULT_MODEL))

\* requestData.messages
MessagesOf(requestData) == Get(requestData, Key_messages)

\* transformRequestToUpstream(requestData): reading a property of null throws
\* a TypeError ([threw |-> TRUE]).
transformRequestToUpstream(requestData) ==
  IF Nullish(requestData)
  THEN [threw |-> TRUE, val |-> NoPayload]
  ELSE [threw |-> FALSE,
        val |-> [task |-> "chat",
                 model |-> ModelOrDefault(requestData),
                 messages |-> MessagesOf(requestData),
                 imageUrl |-> JNull,
                 settings |-> FixedSettings]]

(***************************************************************************)
(* Stream Relay and Response Aggregator.  A frame stands for the bytes     *)
(* `data: ${payload}\n\n`; a chunk's `created` time is left out.           *)
(***************************************************************************)
StopReason == JString(<<"s", "t", "o", "p">>)

\* data: {id, object: 'chat.completion.chunk', model,
\*        choices: [{index: 0, delta: {content}, finish_reason: null}]}
ContentChunk(requestId, model, content) ==
  [payload |-> "chat.completion.chunk", id |-> requestId, model |-> model,
   delta |-> JObject(<< <<Key_content, JString(content)>> >>),
   finish_reason |-> JNull]

\* data: {..., choices: [{index: 0, delta: {}, finish_reason: 'stop'}]}
FinalChunk(requestId, model) ==
  [payload |-> "chat.completion.chunk", id |-> requestId, model |-> model,
   delta |-> JObject(<<>>), finish_reason |-> StopReason]

\* data: [DONE]
DoneFrame ==
  [payload |-> "[DONE]", id |-> <<>>, model |-> JUndefined,
   delta |-> JUndefined, finish_reason |-> JUndefined]

\* data?.choices?.[0]?.delta
DeltaOf(data) == OptGet(OptIndex0(OptGet(data, Key_choices)), Key_delta)

\* The stream transform's loop for one line, statement by statement; the
\* result is the frames the line enqueues (none or one).
\* A variant that emits for a truthy content, of whatever type.
RelayDeltaTruthy(delta, requestId, model) ==
  IF Truthy(delta) /\ Truthy(Get(delta, Key_content))
  THEN <<ContentChunk(requestId, model, ToJSString(Get(delta, Key_content)))>>
  ELSE <<>>

\*   if (delta && typeof delta.content === 'string') controller.enqueue(...)
RelayDelta(delta, requestId, model) ==
  IF Truthy(delta) /\ Get(delta, Key_content).k = "string"
  THEN <<ContentChunk(requestId, model, Get(delta, Key_content).v)>>
  ELSE <<>>

\*   try { const data = JSON.parse(dataStr); ... } catch (e) { }
RelayParsed(parsed, requestId, model) ==
  IF ~parsed.ok THEN <<>> ELSE RelayDelta(DeltaOf(parsed.val), requestId, model)

\* A variant that forwards the upstream's [DONE] instead of skipping it.
RelayPayloadForwardDone(dataStr, requestId, model) ==
  IF dataStr = DoneToken THEN <<DoneFrame>>
  ELSE RelayParsed(JSONParse(dataStr), requestId, model)

\*   if (dataStr === '[DONE]') continue;
RelayPayload(dataStr, requestId, model) ==
  IF dataStr = DoneToken THEN <<>>
  ELSE RelayParsed(JSONParse(dataStr), requestId, model)

\*   if (line.startsWith('data:')) { const dataStr = line.substring(5).trim(); ... }
RelayLine(line, requestId, model) ==
  IF StartsWith(line, DataPrefix)
  THEN RelayPayload(Trim(Substring(line, 5)), requestId, model)
  ELSE <<>>

\* Whether JSON.parse throws on the line's payload.
ParseThrowsOn(dataStr) == dataStr # DoneToken /\ ~JSONParse(dataStr).ok
ParseThrows(line) ==
  StartsWith(line, DataPrefix) /\ ParseThrowsOn(Trim(Substring(line, 5)))

\* The frames of one line, each with the index of the line.
Tagged(frames, src) == [i \in 1..Len(frames) |-> [src |-> src, frame |-> frames[i]]]

\* for (const line of lines) { ... }: what the loop enqueues, each frame with
\* the index (from `base`) of the line it comes from.
RECURSIVE RelayLoop(_, _, _, _)
RelayLoop(lines, base, requestId, model) ==
  IF lines = <<>> THEN <<>>
  ELSE Tagged(RelayLine(Head(lines), requestId, model), base + 1)
       \o RelayLoop(Tail(lines), base + 1, requestId, model)

\* The loop with the try around it instead of inside it: a parse error ends it.
RECURSIVE RelayLoopAbort(_, _, _, _)
RelayLoopAbort(lines, base, requestId, model) ==
  IF lines = <<>> THEN <<>>
  ELSE IF ParseThrows(Head(lines)) THEN <<>>
  ELSE Tagged(RelayLine(Head(lines), requestId, model), base + 1)
       \o RelayLoopAbort(Tail(lines), base + 1, requestId, model)

\* The loop with a break, instead of the continue, at a [DONE] line.
RECURSIVE RelayLoopBreakOnDone(_, _, _, _)
RelayLoopBreakOnDone(lines, base, requestId, model) ==
  IF lines = <<>> THEN <<>>
  ELSE IF StartsWith(Head(lines), DataPrefix) /\ Trim(Substring(Head(lines), 5)) = DoneToken
  THEN <<>>
  ELSE Tagged(RelayLine(Head(lines), requestId, model), base + 1)
       \o RelayLoopBreakOnDone(Tail(lines), base + 1, requestId, model)

\* The loop running over the lines last to first.
RECURSIVE RelayLoopBackwards(_, _, _, _)
RelayLoopBackwards(lines, base, requestId, model) ==
  IF lines = <<>> THEN <<>>
  ELSE RelayLoopBackwards(Tail(lines), base + 1, requestId, model)
       \o Tagged(RelayLine(Head(lines), requestId, model), base + 1)

RelayLines(lines, base, requestId, model) ==
  RelayLoop(lines, base, requestId, model)

\* lines.pop(): the last segment, which becomes the buffer ...
LastSegment(lines) == lines[Len(lines)]
\* A variant that leaves the last segment in `lines`.
PoppedKeepAll(lines) == lines
\* ... and what is left in `lines`.
Popped(lines) == SubSeq(lines, 1, Len(lines) - 1)

\* A variant that also keeps the last complete line in the buffer.
RestBufferWithLastLine(lines) ==
  IF Len(lines) > 1 THEN lines[Len(lines) - 1] \o LastSegment(lines)
  ELSE LastSegment(lines)
\* A variant that empties the buffer after every chunk.
RestBufferCleared(lines) == <<>>
\* buffer = lines.pop()
RestBuffer(lines) == LastSegment(lines)

\* One call of transform(chunk, controller) on the state (buffer, decoder):
\* the new buffer and decoder state, the complete lines the loop ran over and
\* what it enqueued.
\*   const lines = buffer.split('\n'); buffer = lines.pop(); for (...) {...}
StepLines(lines, pending, base, requestId, model) ==
  [buffer |-> RestBuffer(lines),
   pending |-> pending,
   lines |-> Popped(lines),
   enqueued |-> RelayLines(Popped(lines), base, requestId, model)]

\*   buffer += decoder.decode(chunk, { stream: true });
StepDecoded(buffer, dec, base, requestId, model) ==
  StepLines(Split(buffer \o dec.text), dec.pending, base, requestId, model)

TransformStep(buffer, pending, chunk, base, requestId, model) ==
  StepDecoded(buffer, DecodeStream(pending, chunk), base, requestId, model)

\* A variant of flush that enqueues [DONE] before the stop chunk.
FlushFramesDoneFirst(requestId, model) == <<DoneFrame, FinalChunk(requestId, model)>>
\* flush(controller): the two frames it enqueues.
FlushFrames(requestId, model) == <<FinalChunk(requestId, model), DoneFrame>>

\* transformNonStreamResponse's loop for one line, statement by statement;
\* the result is what the line appends to fullContent.
\*   if (content) fullContent += content;
AggregateContent(content) == IF Truthy(content) THEN ToJSString(content) ELSE <<>>

\*   try { const data = JSON.parse(dataStr);
\*         const content = data?.choices?.[0]?.delta?.content; ... } catch (e) {}
AggregateParsed(parsed) ==
  IF ~parsed.ok THEN <<>>
  ELSE AggregateContent(OptGet(DeltaOf(parsed.val), Key_content))

\*   if (dataStr === '[DONE]') continue;
AggregatePayload(dataStr) ==
  IF dataStr = DoneToken THEN <<>> ELSE AggregateParsed(JSONParse(dataStr))

\*   if (line.startsWith('data:')) { const dataStr = line.substring(5).trim(); ... }
AggregateLine(line) ==
  IF StartsWith(line, DataPrefix) THEN AggregatePayload(Trim(Substring(line, 5)))
  ELSE <<>>

RECURSIVE AggregateLoop(_)
AggregateLoop(lines) ==
  IF lines = <<>> THEN <<>>
  ELSE AggregateLine(Head(lines)) \o AggregateLoop(Tail(lines))

\* A variant that leaves out the segment after the last newline.
BodyLinesComplete(fullBody) == Popped(Split(fullBody))
\*   const lines = fullBody.split('\n');
BodyLines(fullBody) == Split(fullBody)

\* transformNonStreamResponse(fullBody, requestId, model)
transformNonStreamResponse(fullBody, requestId, model) ==
  [id |-> requestId, object |-> "chat.completion", model |-> model,
   role |-> "assistant", content |-> AggregateLoop(BodyLines(fullBody)),
   finish_reason |-> "stop",
   usage |-> [prompt_tokens |-> 0, completion_tokens |-> 0, total_tokens |-> 0]]

(***************************************************************************)
(* Inputs: client requests and upstream responses.                         *)
(***************************************************************************)
Absent == [present |-> FALSE, value |-> <<>>]
Present(chars) == [present |-> TRUE, value |-> chars]

\* Client request bodies.
Message1 ==
  <<"{", QUOTE, "r", "o", "l", "e", QUOTE, ":", QUOTE, "u", "s", "e", "r", QUOTE, ",",
    QUOTE, "c", "o", "n", "t", "e", "n", "t", QUOTE, ":", QUOTE, "a", QUOTE, "}">>
Message2 ==
  <<"{", QUOTE, "r", "o", "l", "e", QUOTE, ":", QUOTE, "a", "s", "s", "i", "s", "t", "a",
    "n", "t", QUOTE, ",", QUOTE, "c", "o", "n", "t", "e", "n", "t", QUOTE, ":", QUOTE,
    "b", QUOTE, "}">>
MessagesMember ==
  <<QUOTE, "m", "e", "s", "s", "a", "g", "e", "s", QUOTE, ":", "[">>
    \o Message1 \o <<",">> \o Message2 \o <<"]">>
ModelMembers ==
  { <<QUOTE, "m", "o", "d", "e", "l", QUOTE, ":", QUOTE, "g", "p", "t", "-", "4", QUOTE>>,
    <<QUOTE, "m", "o", "d", "e", "l", QUOTE, ":", QUOTE, QUOTE>> }
StreamTrueMember ==
  <<QUOTE, "s", "t", "r", "e", "a", "m", QUOTE, ":", "t", "r", "u", "e">>
StreamFalseMember ==
  <<QUOTE, "s", "t", "r", "e", "a", "m", QUOTE, ":", "f", "a", "l", "s", "e">>

\* {"k":v,...} of a sequence of members.
RECURSIVE JoinMembers(_)
JoinMembers(ms) ==
  IF ms = <<>> THEN <<>>
  ELSE Head(ms) \o (IF Len(ms) > 1 THEN <<",">> ELSE <<>>) \o JoinMembers(Tail(ms))

ObjectText(ms) == <<"{">> \o JoinMembers(ms) \o <<"}">>

\* The members chosen: each of model, messages and stream given or not.
ObjectBodies ==
  { ObjectText(mo \o me \o st) :
      mo \in {<<>>} \cup {<<m>> : m \in ModelMembers},
      me \in {<<>>, <<MessagesMember>>},
      st \in {<<>>, <<StreamTrueMember>>, <<StreamFalseMember>>} }

ClientBodies ==
  ObjectBodies
    \cup { <<"{", QUOTE, "m", "o", "d", "e", "l", QUOTE, ":">>,   \* not JSON
           <<"n", "u", "l", "l">>,
           <<"1">> }

\* An authenticated streaming chat request.
RelayBodyStream ==
  ObjectText(<< <<QUOTE, "m", "o", "d", "e", "l", QUOTE, ":", QUOTE, "g", "p", "t", "-",
                  "4", QUOTE>>,
                MessagesMember, StreamTrueMember >>)
\* The same, not streaming.
RelayBodyPlain == ObjectText(<<MessagesMember>>)

GoodAuth == Present(BearerPrefix \o API_MASTER_KEY)

HttpRequests ==
  [method : {"POST", "OPTIONS"},
   path : {PathHealth, PathModels, PathChat,
           <<"/", "v", "1", "/", "e", "m", "b", "e", "d", "d", "i", "n", "g", "s">>,
           <<"/", "f", "a", "v", "i", "c", "o", "n", ".", "i", "c", "o">>},
   auth : {Absent, GoodAuth, Present(BearerPrefix \o <<"2">>),
           Present(<<"B", "a", "s", "i", "c", " ", "1">>)},
   body : ClientBodies]

RelayRequests ==
  [method : {"POST"}, path : {PathChat}, auth : {GoodAuth},
   body : {RelayBodyStream, RelayBodyPlain}]

IsoRequests ==
  [method : {"POST"}, path : {PathChat}, auth : {GoodAuth}, body : {RelayBodyStream}]

\* Upstream event lines (bytes, without the newline).
EventOpen ==
  <<"{", QUOTE, "c", "h", "o", "i", "c", "e", "s", QUOTE, ":", "[", "{", QUOTE, "d", "e",
    "l", "t", "a", QUOTE, ":", "{">>
EventClose == <<"}", "}", "]", "}">>
ContentMember(valueText) ==
  <<QUOTE, "c", "o", "n", "t", "e", "n", "t", QUOTE, ":">> \o valueText

\* data: {"choices":[{"delta":{"content":"a"}}]}
LineA ==
  DataPrefix \o <<" ">> \o EventOpen \o ContentMember(<<QUOTE, "a", QUOTE>>) \o EventClose
\* data:{"choices":[{"delta":{"content":"<OMEGA>"}}]}<CR>: no space after the
\* colon, a two-byte character, a CR before the newline.
LineOmega ==
  DataPrefix \o EventOpen
    \o ContentMember(<<QUOTE, OmegaLead, OmegaCont, QUOTE>>) \o EventClose \o <<CR>>
\* data: {"choices":[{"delta":{"content":""}}]}
LineEmptyContent ==
  DataPrefix \o <<" ">> \o EventOpen \o ContentMember(<<QUOTE, QUOTE>>) \o EventClose
\* data: {"choices":[{"delta":{}}]}
LineNoContent == DataPrefix \o <<" ">> \o EventOpen \o EventClose
\* data: [DONE]
LineDone == DataPrefix \o <<" ">> \o DoneToken
\* data: not-json
LineMalformed == DataPrefix \o <<" ", "n", "o", "t", "-", "j", "s", "o", "n">>
LineBlank == <<>>
\* : ping
LineComment == <<":", " ", "p", "i", "n", "g">>
\* data: {"choices":[{"delta":{"content":1}}]}
LineNumberContent ==
  DataPrefix \o <<" ">> \o EventOpen \o ContentMember(<<"1">>) \o EventClose

\* data: {"choices":[{"delta":{"content":true}}]}
LineBoolContent ==
  DataPrefix \o <<" ">> \o EventOpen \o ContentMember(<<"t", "r", "u", "e">>) \o EventClose
\* data: {"choices":[{"delta":{"content":{}}}]}
LineObjectContent ==
  DataPrefix \o <<" ">> \o EventOpen \o ContentMember(<<"{", "}">>) \o EventClose
\* data: {"choices":[{"delta":{"content":0}}]}
LineZeroContent ==
  DataPrefix \o <<" ">> \o EventOpen \o ContentMember(<<"0">>) \o EventClose
\* data: null
LineNullPayload == DataPrefix \o <<" ", "n", "u", "l", "l">>

\* The valid upstream events (a blank line separates events).
ValidLines ==
  {LineA, LineOmega, LineEmptyContent, LineNoContent, LineDone, LineBlank}
RelayCatalogue == ValidLines \cup {LineMalformed}
HttpCatalogue == {LineA, LineDone, LineComment, LineNumberContent}
\* Every kind of line the per-line rules tell apart.
LineCatalogue ==
  RelayCatalogue
    \cup {LineComment, LineNumberContent, LineBoolContent, LineObjectContent,
          LineZeroContent, LineNullPayload}

\* The sequences of at most n lines of a catalogue.
RECURSIVE LineSeqs(_, _)
LineSeqs(cat, n) ==
  IF n = 0 THEN {<<>>}
  ELSE LineSeqs(cat, n - 1)
       \cup {Append(ls, l) : ls \in {x \in LineSeqs(cat, n - 1) : Len(x) = n - 1}, l \in cat}

\* The bytes of a sequence of lines, each ended by a newline, but the last
\* when `terminated` is false.
RECURSIVE JoinLines(_, _)
JoinLines(ls, terminated) ==
  IF ls = <<>> THEN <<>>
  ELSE IF Len(ls) = 1 THEN Head(ls) \o (IF terminated THEN <<LF>> ELSE <<>>)
  ELSE Head(ls) \o <<LF>> \o JoinLines(Tail(ls), terminated)

Bodies(cat, n) == {JoinLines(ls, t) : ls \in LineSeqs(cat, n), t \in BOOLEAN}

NoUpstream ==
  [threw |-> FALSE, status |-> 0, contentType |-> Absent, body |-> <<>>]

SseType == Present(EventStreamType)
JsonType ==
  Present(<<"a", "p", "p", "l", "i", "c", "a", "t", "i", "o", "n", "/", "j", "s", "o", "n">>)

\* What the upstream call may come to: a network error, an error status
\* with a body, a success with a content type and a body.
UpstreamOutcomes(bodies, types) ==
  {[threw |-> TRUE, status |-> 0, contentType |-> Absent, body |-> <<>>]}
    \cup [threw : {FALSE}, status : {404, 500}, contentType : {JsonType},
          body : {<<>>, <<"o", "v", "e", "r", "l", "o", "a", "d", "e", "d">>}]
    \cup [threw : {FALSE}, status : {200}, contentType : types, body : bodies]

HttpOutcomes ==
  UpstreamOutcomes(Bodies(HttpCatalogue, MaxHttpLines), {Absent, SseType, JsonType})

RelayOutcomes ==
  [threw : {FALSE}, status : {200}, contentType : {SseType},
   body : Bodies(RelayCatalogue, MaxLines)]

IsoOutcomes ==
  [threw : {FALSE}, status : {200}, contentType : {SseType},
   body : {LineA \o <<LF>>, LineOmega \o <<LF>> \o LineDone}]

LinesOutcomes ==
  [threw : {FALSE}, status : {200}, contentType : {SseType},
   body : Bodies(LineCatalogue, MaxRuleLines)]

(***************************************************************************)
(* State.  Every variable is a function of the request (1..n); `buffer`    *)
(* and `decoder` are functions of the transform stream's closure.          *)
(***************************************************************************)
VARIABLES
  pc,               \* where the request's handling stands
  request,          \* the client's request
  requestData,      \* handleChatCompletions: requestData
  upstreamPayload,  \* the body of the upstream call
  fetchCalls,       \* the upstream calls made
  upstream,         \* the upstream's response
  upPos,            \* the bytes of the upstream body delivered so far
  decoder,          \* createUpstreamToOpenAIStream: decoder (its pending bytes)
  buffer,           \* createUpstreamToOpenAIStream: buffer
  out,              \* the frames enqueued on the client's stream
  outSrc,           \* for each frame, the index of the line it comes from
  processed,        \* the lines the transform's loop has run over
  flushes,          \* the calls of flush
  response          \* the response returned to the client

vars ==
  <<pc, request, requestData, upstreamPayload, fetchCalls, upstream, upPos, decoder,
    buffer, out, outSrc, processed, flushes, response>>

Reqs == DOMAIN pc

NoRequest == [method |-> "", path |-> <<>>, auth |-> Absent, body |-> <<>>]
NoResponse == [status |-> 0, contentType |-> "", kind |-> "none", body |-> <<>>]

\* `chatcmpl-${crypto.randomUUID()}`: the request's number stands for its UUID.
RequestId(r) == <<"chatcmpl-", r>>

InitN(n) ==
  /\ pc = [r \in 1..n |-> "idle"]
  /\ request = [r \in 1..n |-> NoRequest]
  /\ requestData = [r \in 1..n |-> JUndefined]
  /\ upstreamPayload = [r \in 1..n |-> NoPayload]
  /\ fetchCalls = [r \in 1..n |-> 0]
  /\ upstream = [r \in 1..n |-> NoUpstream]
  /\ upPos = [r \in 1..n |-> 0]
  /\ decoder = [r \in 1..n |-> <<>>]
  /\ buffer = [r \in 1..n |-> <<>>]
  /\ out = [r \in 1..n |-> <<>>]
  /\ outSrc = [r \in 1..n |-> <<>>]
  /\ processed = [r \in 1..n |-> <<>>]
  /\ flushes = [r \in 1..n |-> 0]
  /\ response = [r \in 1..n |-> NoResponse]

(***************************************************************************)
(* Responses.                                                              *)
(***************************************************************************)
JsonResponse(status, kind, body) ==
  [status |-> status, contentType |-> "application/json", kind |-> kind, body |-> body]

\* createErrorResponse(message, status, code)
createErrorResponse(message, status, code) ==
  [status |-> status, contentType |-> "application/json; charset=utf-8",
   kind |-> "error",
   body |-> [message |-> message, type |-> "api_error", code |-> code]]

\* A variant that answers every upstream error with 502.
UpstreamErrorStatusFixed(status) == 502
\* The status an upstream error is answered with.
UpstreamErrorStatus(status) == status

\* A variant of the condition that looks at the stream flag only.
WantsStreamFlagOnly(data, contentType) == Truthy(Get(data, Key_stream))
\* The streaming branch's condition:
\* requestData.stream && contentType && contentType.includes('text/event-stream')
WantsStream(data, contentType) ==
  /\ Truthy(Get(data, Key_stream))
  /\ contentType.present
  /\ contentType.value # <<>>
  /\ Includes(contentType.value, EventStreamType)

\* A variant with one buffer and decoder at module level, shared by all.
ClosureShared(r) == 1
\* The closure that holds a request's buffer and decoder: one for each call
\* of createUpstreamToOpenAIStream.
Closure(r) == r

(***************************************************************************)
(* Actions.                                                                *)
(***************************************************************************)
\* A variant of handleApi without the authentication.
handleApiNoAuth(r, q) ==
  IF q.method = "OPTIONS"
  THEN [next |-> "done",
        res |-> [status |-> 204, contentType |-> "", kind |-> "preflight", body |-> <<>>]]
  ELSE IF q.path = PathModels
  THEN [next |-> "done",
        res |-> [status |-> 200, contentType |-> "application/json; charset=utf-8",
                 kind |-> "models", body |-> <<>>]]
  ELSE IF q.path = PathChat
  THEN [next |-> "json", res |-> NoResponse]
  ELSE [next |-> "done",
        res |-> createErrorResponse(<<"Unsupported path: ", q.path>>, 404, "not_found")]

\* handleApi(request), up to the call of handleChatCompletions.
handleApi(r, q) ==
  IF q.method = "OPTIONS"
  THEN [next |-> "done",
        res |-> [status |-> 204, contentType |-> "", kind |-> "preflight", body |-> <<>>]]
  ELSE IF ~q.auth.present \/ q.auth.value = <<>> \/ ~StartsWith(q.auth.value, BearerPrefix)
  THEN [next |-> "done",
        res |-> createErrorResponse("Missing Bearer Token.", 401, "unauthorized")]
  ELSE IF Substring(q.auth.value, 7) # API_MASTER_KEY
  THEN [next |-> "done",
        res |-> createErrorResponse("Invalid API Key.", 403, "invalid_api_key")]
  ELSE IF q.path = PathModels
  THEN [next |-> "done",
        res |-> [status |-> 200, contentType |-> "application/json; charset=utf-8",
                 kind |-> "models", body |-> <<>>]]
  ELSE IF q.path = PathChat
  THEN [next |-> "json", res |-> NoResponse]
  ELSE [next |-> "done",
        res |-> createErrorResponse(<<"Unsupported path: ", q.path>>, 404, "not_found")]

\* Bun.serve's fetch(request): the routing, then handleApi; the handling of a
\* chat request stops at `await request.json()`.
Serve(r, requests) ==
  /\ pc[r] = "idle"
  /\ \E q \in requests :
       LET step ==
             IF q.path = PathRoot \/ q.path = PathHealth
             THEN [next |-> "done", res |-> JsonResponse(200, "health", <<>>)]
             ELSE IF StartsWith(q.path, V1Prefix) THEN handleApi(r, q)
             ELSE [next |-> "done", res |-> JsonResponse(404, "path_not_found", <<>>)]
       IN  /\ request' = [request EXCEPT ![r] = q]
           /\ pc' = [pc EXCEPT ![r] = step.next]
           /\ response' = [response EXCEPT ![r] = step.res]
  /\ UNCHANGED <<requestData, upstreamPayload, fetchCalls, upstream, upPos, decoder,
                 buffer, out, outSrc, processed, flushes>>

InternalError == createErrorResponse("Internal Error", 500, "internal_server_error")

\* The rest of the try block up to the upstream call, requestData known:
\* transformRequestToUpstream(requestData), then fetch(...).
CallUpstream(r, data, payload) ==
  /\ requestData' = [requestData EXCEPT ![r] = data]
  /\ IF payload.threw
     THEN /\ pc' = [pc EXCEPT ![r] = "done"]
          /\ response' = [response EXCEPT ![r] = InternalError]
          /\ UNCHANGED <<upstreamPayload, fetchCalls>>
     ELSE /\ pc' = [pc EXCEPT ![r] = "fetch"]
          /\ upstreamPayload' = [upstreamPayload EXCEPT ![r] = payload.val]
          /\ fetchCalls' = [fetchCalls EXCEPT ![r] = @ + 1]
          /\ UNCHANGED response

\* A variant that takes a body that is not JSON for an empty object.
OnRequestJsonLenient(r, parsed) ==
  IF ~parsed.ok
  THEN CallUpstream(r, JObject(<<>>), transformRequestToUpstream(JObject(<<>>)))
  ELSE CallUpstream(r, parsed.val, transformRequestToUpstream(parsed.val))

\* `await request.json()` settled: rejected (the body is not JSON), or
\* resolved to requestData.
OnRequestJson(r, parsed) ==
  IF ~parsed.ok
  THEN /\ pc' = [pc EXCEPT ![r] = "done"]
       /\ response' = [response EXCEPT ![r] = InternalError]
       /\ UNCHANGED <<requestData, upstreamPayload, fetchCalls>>
  ELSE CallUpstream(r, parsed.val, transformRequestToUpstream(parsed.val))

\* handleChatCompletions from the moment request.json() settles to the
\* upstream call.  An exception ends in the catch clause.
ParseAndFetch(r) ==
  /\ pc[r] = "json"
  /\ OnRequestJson(r, JSONParse(request[r].body))
  /\ UNCHANGED <<request, upstream, upPos, decoder, buffer, out, outSrc, processed,
                 flushes>>

\* handleChatCompletions from the moment the upstream call settles: the
\* error response, the streaming response (createUpstreamToOpenAIStream and
\* pipeThrough), or the aggregated one (the body read in full).
UpstreamResponds(r, outcomes) ==
  /\ pc[r] = "fetch"
  /\ \E u \in outcomes :
           /\ upstream' = [upstream EXCEPT ![r] = u]
           /\ IF u.threw
              THEN /\ pc' = [pc EXCEPT ![r] = "done"]
                   /\ response' = [response EXCEPT ![r] = InternalError]
                   /\ UNCHANGED <<decoder, buffer>>
              ELSE IF u.status \notin 200..299
              THEN /\ pc' = [pc EXCEPT ![r] = "done"]
                   /\ response' =
                        [response EXCEPT ![r] =
                           createErrorResponse(
                             <<"Upstream error ", u.status, ": ", DecodeText(u.body)>>,
                             UpstreamErrorStatus(u.status), "upstream_error")]
                   /\ UNCHANGED <<decoder, buffer>>
              ELSE IF WantsStream(requestData[r], u.contentType)
              THEN /\ pc' = [pc EXCEPT ![r] = "streaming"]
                   /\ decoder' = [decoder EXCEPT ![Closure(r)] = <<>>]
                   /\ buffer' = [buffer EXCEPT ![Closure(r)] = <<>>]
                   /\ response' =
                        [response EXCEPT ![r] =
                           [status |-> 200,
                            contentType |-> "text/event-stream; charset=utf-8",
                            kind |-> "stream", body |-> <<>>]]
              ELSE /\ pc' = [pc EXCEPT ![r] = "done"]
                   /\ response' =
                        [response EXCEPT ![r] =
                           [status |-> 200,
                            contentType |-> "application/json; charset=utf-8",
                            kind |-> "completion",
                            body |-> transformNonStreamResponse(
                                       DecodeText(u.body), RequestId(r),
                                       ModelOrDefault(requestData[r]))]]
                   /\ UNCHANGED <<decoder, buffer>>
  /\ UNCHANGED <<request, requestData, upstreamPayload, fetchCalls, upPos, out, outSrc,
                 processed, flushes>>

Min(a, b) == IF a < b THEN a ELSE b

\* The bytes up to and with the next newline of the rest of the body (all
\* of it when it has none).
ThroughNewline(body, pos) ==
  LET nl == {i \in (pos + 1)..Len(body) : body[i] = LF}
  IN  IF nl = {} THEN Len(body) - pos
      ELSE (CHOOSE i \in nl : \A j \in nl : i <= j) - pos

\* The sizes the next chunk may have: nothing, a few bytes, the bytes
\* through the next newline, all the rest.
ChunkSizes(body, pos) ==
  (0..Min(MaxChunk, Len(body) - pos))
    \cup {ThroughNewline(body, pos), Len(body) - pos}

\* The frames, and the line indexes, of what a step enqueued.
FramesOf(enqueued) == [i \in 1..Len(enqueued) |-> enqueued[i].frame]
SourcesOf(enqueued) == [i \in 1..Len(enqueued) |-> enqueued[i].src]

\* The state after a call of transform on a chunk of k bytes.
AfterTransform(r, k, step) ==
  /\ upPos' = [upPos EXCEPT ![r] = @ + k]
  /\ decoder' = [decoder EXCEPT ![Closure(r)] = step.pending]
  /\ buffer' = [buffer EXCEPT ![Closure(r)] = step.buffer]
  /\ processed' = [processed EXCEPT ![r] = @ \o step.lines]
  /\ out' = [out EXCEPT ![r] = @ \o FramesOf(step.enqueued)]
  /\ outSrc' = [outSrc EXCEPT ![r] = @ \o SourcesOf(step.enqueued)]

\* transform(chunk, controller), on the next chunk of the upstream body.
Transform(r) ==
  /\ pc[r] = "streaming"
  /\ \E k \in ChunkSizes(upstream[r].body, upPos[r]) :
       AfterTransform(r, k,
         TransformStep(buffer[Closure(r)], decoder[Closure(r)],
                       SubSeq(upstream[r].body, upPos[r] + 1, upPos[r] + k),
                       Len(processed[r]), RequestId(r),
                       ModelOrDefault(requestData[r])))
  /\ UNCHANGED <<pc, request, requestData, upstreamPayload, fetchCalls, upstream,
                 flushes, response>>

\* flush(controller), once the upstream body has ended.
Flush(r) ==
  /\ pc[r] = "streaming"
  /\ upPos[r] = Len(upstream[r].body)
  /\ pc' = [pc EXCEPT ![r] = "closed"]
  /\ out' = [out EXCEPT ![r] =
               @ \o FlushFrames(RequestId(r), ModelOrDefault(requestData[r]))]
  /\ flushes' = [flushes EXCEPT ![r] = @ + 1]
  /\ UNCHANGED <<request, requestData, upstreamPayload, fetchCalls, upstream, upPos,
                 decoder, buffer, outSrc, processed, response>>

(***************************************************************************)
(* Specifications.                                                         *)
(***************************************************************************)
\* End to end: one request of any kind, any upstream outcome.
Init == InitN(1)

Next ==
  \/ \E r \in Reqs : Serve(r, HttpRequests)
  \/ \E r \in Reqs : ParseAndFetch(r)
  \/ \E r \in Reqs : UpstreamResponds(r, HttpOutcomes)
  \/ \E r \in Reqs : Transform(r)
  \/ \E r \in Reqs : Flush(r)

Spec == Init /\ [][Next]_vars

\* The relay: one authenticated chat request, a successful upstream event
\* stream of up to MaxLines lines.
InitRelay == InitN(1)

NextRelay ==
  \/ \E r \in Reqs : Serve(r, RelayRequests)
  \/ \E r \in Reqs : ParseAndFetch(r)
  \/ \E r \in Reqs : UpstreamResponds(r, RelayOutcomes)
  \/ \E r \in Reqs : Transform(r)
  \/ \E r \in Reqs : Flush(r)

SpecRelay == InitRelay /\ [][NextRelay]_vars

\* Two streaming requests in flight at once.
InitIso == InitN(2)

NextIso ==
  \/ \E r \in Reqs : Serve(r, IsoRequests)
  \/ \E r \in Reqs : ParseAndFetch(r)
  \/ \E r \in Reqs : UpstreamResponds(r, IsoOutcomes)
  \/ \E r \in Reqs : Transform(r)
  \/ \E r \in Reqs : Flush(r)

SpecIso == InitIso /\ [][NextIso]_vars

\* The per-line rules: one authenticated chat request, a successful upstream
\* event stream of up to MaxRuleLines lines of any kind.
InitLines == InitN(1)

NextLines ==
  \/ \E r \in Reqs : Serve(r, RelayRequests)
  \/ \E r \in Reqs : ParseAndFetch(r)
  \/ \E r \in Reqs : UpstreamResponds(r, LinesOutcomes)
  \/ \E r \in Reqs : Transform(r)
  \/ \E r \in Reqs : Flush(r)

SpecLines == InitLines /\ [][NextLines]_vars

(***************************************************************************)
(* What the claims speak of.                                               *)
(***************************************************************************)
Streaming(r) == pc[r] = "streaming"
Closed(r) == pc[r] = "closed"

\* The upstream bytes delivered so far, and the whole body as text.
Received(r) == SubSeq(upstream[r].body, 1, upPos[r])
FullText(r) == DecodeText(upstream[r].body)

ModelFor(r) == ModelOrDefault(requestData[r])

IsDone(f) == f.payload = "[DONE]"
IsContent(f) ==
  /\ f.payload = "chat.completion.chunk"
  /\ f.finish_reason = JNull
  /\ Get(f.delta, Key_content).k = "string"

\* The delta.content of a frame ("" for a frame that has none).
ContentOf(f) == IF IsContent(f) THEN Get(f.delta, Key_content).v ELSE <<>>

\* The delta.content values of a sequence of frames, concatenated in order.
StreamedContent(frames) == Concat([i \in 1..Len(frames) |-> ContentOf(frames[i])])

\* The lines of a body that make a valid upstream event, as text.
ValidText == {DecodeText(l) : l \in ValidLines}
ValidBody(r) == \A i \in 1..Len(Split(FullText(r))) : Split(FullText(r))[i] \in ValidText

\* The state a transform stream is in after one call of transform on all
\* the bytes received so far.
InOneChunk(r) == TransformStep(<<>>, <<>>, Received(r), 0, RequestId(r), ModelFor(r))

\* A text without its malformed data: lines (each goes with its newline).
WithoutMalformed(text) ==
  Concat([i \in 1..Len(Split(text)) |->
            IF ParseThrows(Split(text)[i]) THEN <<>>
            ELSE Split(text)[i] \o (IF i < Len(Split(text)) THEN <<LF>> ELSE <<>>)])

\* What the stream transform enqueues for a text whose last line is not ended.
RelayOfText(text, r) ==
  FramesOf(RelayLines(Popped(Split(text)), 0, RequestId(r), ModelFor(r)))

(***************************************************************************)
(* C1.  Streaming and aggregation agree on the content.                    *)
(***************************************************************************)
\* C1 as stated: once a stream over a body of valid upstream events has
\* ended, the concatenation of the delta.content it has emitted equals the
\* message.content transformNonStreamResponse gives for the same body,
\* however the body was cut into chunks.
C1_StreamEqualsAggregate ==
  \A r \in Reqs :
    (Closed(r) /\ ValidBody(r)) =>
      StreamedContent(out[r])
        = transformNonStreamResponse(FullText(r), RequestId(r), ModelFor(r)).content

\* C1 amended: the streamed content, followed by what the aggregator takes
\* from the text after the last newline, equals the aggregated content; so
\* the two agree when the body ends with a newline (or that last fragment
\* carries no content).
C1_StreamEqualsAggregateOfCompleteLines ==
  \A r \in Reqs :
    (Closed(r) /\ ValidBody(r)) =>
      StreamedContent(out[r]) \o AggregateLine(LastSegment(Split(FullText(r))))
        = transformNonStreamResponse(FullText(r), RequestId(r), ModelFor(r)).content

\* A stream has ended over a body of two valid events that ends with a
\* newline, and both contents were streamed.
C1_Witness ==
  \E r \in Reqs :
    /\ Closed(r)
    /\ ValidBody(r)
    /\ upstream[r].body = LineA \o <<LF>> \o LineOmega \o <<LF>>
    /\ StreamedContent(out[r]) = <<"a", OMEGA>>

(***************************************************************************)
(* C2.  Re-chunking invariance.                                            *)
(***************************************************************************)
\* C2: however the bytes received so far were cut into chunks, the loop has
\* run over exactly the newline-terminated lines of their text, the buffer
\* holds the text after the last newline, and what was enqueued is what one
\* call of transform on all those bytes enqueues; at the end of the stream
\* the fragment after the last newline has not been processed.
C2_RechunkingInvariance ==
  \A r \in Reqs :
    (Streaming(r) \/ Closed(r)) =>
      /\ processed[r] = Popped(Split(Decode(Received(r)).text))
      /\ buffer[Closure(r)] = LastSegment(Split(Decode(Received(r)).text))
      /\ Closed(r) =>
           /\ processed[r] = InOneChunk(r).lines
           /\ out[r] = FramesOf(InOneChunk(r).enqueued)
                         \o FlushFrames(RequestId(r), ModelFor(r))

\* A stream is under way that has run over its first line, has got the
\* first byte only of a two-byte character of the second, and holds the
\* start of that line in its buffer.
C2_Witness ==
  \E r \in Reqs :
    /\ Streaming(r)
    /\ upstream[r].body = LineA \o <<LF>> \o LineOmega \o <<LF>>
    /\ Len(processed[r]) = 1
    /\ Len(out[r]) = 1
    /\ decoder[Closure(r)] = <<OmegaLead>>
    /\ buffer[Closure(r)] # <<>>

(***************************************************************************)
(* C3.  Finalize.                                                          *)
(***************************************************************************)
\* C3: flush runs at most once, and has run exactly once when the stream has
\* ended, after all of the upstream body was transformed; the stream then
\* ends with the stop chunk (empty delta, finish_reason "stop") followed by
\* the [DONE] frame, only content chunks come before them, and a stream that
\* has not ended holds neither.
C3_FinalizeOnce ==
  \A r \in Reqs :
    /\ flushes[r] = (IF Closed(r) THEN 1 ELSE 0)
    /\ Streaming(r) => \A i \in 1..Len(out[r]) : IsContent(out[r][i])
    /\ Closed(r) =>
         /\ upPos[r] = Len(upstream[r].body)
         /\ Len(out[r]) >= 2
         /\ out[r][Len(out[r]) - 1] = FinalChunk(RequestId(r), ModelFor(r))
         /\ out[r][Len(out[r]) - 1].delta = JObject(<<>>)
         /\ out[r][Len(out[r])] = DoneFrame
         /\ \A i \in 1..(Len(out[r]) - 2) : IsContent(out[r][i])

\* A stream has ended without a single content chunk.
C3_Witness ==
  \E r \in Reqs :
    /\ Closed(r)
    /\ upstream[r].body # <<>>
    /\ Len(out[r]) = 2

(***************************************************************************)
(* C4.  Skip-and-continue.                                                 *)
(***************************************************************************)
\* C4: a stream that has ended has put out exactly what it puts out for the
\* body without its malformed data: lines, and an aggregated response has
\* the content it has for the body without them.
C4_SkipAndContinue ==
  \A r \in Reqs :
    /\ Closed(r) =>
         out[r] = RelayOfText(WithoutMalformed(FullText(r)), r)
                    \o FlushFrames(RequestId(r), ModelFor(r))
    /\ response[r].kind = "completion" =>
         response[r].body.content
           = transformNonStreamResponse(WithoutMalformed(FullText(r)), RequestId(r),
                                        ModelFor(r)).content

\* A stream has ended over a body with a malformed line before a valid one,
\* and the valid one's content was streamed.
C4_Witness ==
  \E r \in Reqs :
    /\ Closed(r)
    /\ upstream[r].body = LineMalformed \o <<LF>> \o LineA \o <<LF>>
    /\ StreamedContent(out[r]) = <<"a">>

(***************************************************************************)
(* C8.  The upstream's [DONE] is not forwarded.                            *)
(***************************************************************************)
\* The data: [DONE] lines of a text.
DoneLines(text) ==
  {i \in 1..Len(Split(text)) :
     /\ StartsWith(Split(text)[i], DataPrefix)
     /\ Trim(Substring(Split(text)[i], 5)) = DoneToken}

\* C8: a stream that has not ended holds no [DONE] frame, and one that has
\* ended holds exactly one, its last frame, whatever the number of [DONE]
\* lines of the upstream body.
C8_SingleDone ==
  \A r \in Reqs :
    /\ Streaming(r) => \A i \in 1..Len(out[r]) : ~IsDone(out[r][i])
    /\ Closed(r) =>
         /\ out[r] # <<>>
         /\ \A i \in 1..Len(out[r]) : IsDone(out[r][i]) <=> i = Len(out[r])

\* A stream has ended over a body with two [DONE] lines.
C8_Witness ==
  \E r \in Reqs :
    /\ Closed(r)
    /\ Cardinality(DoneLines(FullText(r))) = 2

(***************************************************************************)
(* C9.  Order preservation.                                                *)
(***************************************************************************)
\* C9: the content chunks come from lines of strictly increasing index (so
\* in the order of the lines, and at most one from a line), and each is the
\* one chunk its line alone yields (nothing merged, nothing split).
C9_OrderPreserved ==
  \A r \in Reqs :
    (Streaming(r) \/ Closed(r)) =>
      /\ \A i \in 1..Len(outSrc[r]) :
           /\ outSrc[r][i] \in 1..Len(processed[r])
           /\ i > 1 => outSrc[r][i - 1] < outSrc[r][i]
      /\ Closed(r) =>
           \A i \in 1..Len(outSrc[r]) :
             <<out[r][i]>>
               = RelayLine(Split(FullText(r))[outSrc[r][i]], RequestId(r), ModelFor(r))

\* Two content lines that arrived in one chunk have their chunks in order.
C9_Witness ==
  \E r \in Reqs :
    /\ Streaming(r)
    /\ upstream[r].body = LineOmega \o <<LF>> \o LineA \o <<LF>>
    /\ upPos[r] = Len(upstream[r].body)
    /\ outSrc[r] = <<1, 2>>
    /\ StreamedContent(out[r]) = <<OMEGA, "a">>

(***************************************************************************)
(* C5.  The branch between the streamed and the aggregated response.       *)
(***************************************************************************)
\* The upstream call has come back with a success status.
Succeeded(r) == ~upstream[r].threw /\ upstream[r].status \in 200..299

StreamFlag(r) == Get(requestData[r], Key_stream) = JBool(TRUE)

UpstreamIsEventStream(r) ==
  /\ upstream[r].contentType.present
  /\ Includes(upstream[r].contentType.value, EventStreamType)

IsStreamResponse(res) ==
  /\ res.kind = "stream"
  /\ res.status = 200
  /\ res.contentType = "text/event-stream; charset=utf-8"

IsCompletionResponse(res) ==
  /\ res.kind = "completion"
  /\ res.status = 200
  /\ res.contentType = "application/json; charset=utf-8"
  /\ res.body.object = "chat.completion"

\* C5 as stated: after a successful upstream call the response is a stream
\* when the request's stream flag is true, and one chat.completion object
\* when it is false or absent.
C5_BranchOnStreamFlag ==
  \A r \in Reqs :
    Succeeded(r) =>
      IF StreamFlag(r) THEN IsStreamResponse(response[r])
      ELSE IsCompletionResponse(response[r])

\* C5 amended: the response is a stream when the stream flag is true and
\* the upstream's content type holds text/event-stream; in every other case
\* (flag false or absent, or another or no content type) it is one
\* chat.completion object.  A stream that has ended is made of
\* chat.completion.chunk frames and a last [DONE] frame.
C5_BranchOnFlagAndContentType ==
  \A r \in Reqs :
    Succeeded(r) =>
      IF StreamFlag(r) /\ UpstreamIsEventStream(r)
      THEN /\ IsStreamResponse(response[r])
           /\ Streaming(r) \/ Closed(r)
           /\ Closed(r) =>
                \A i \in 1..Len(out[r]) :
                  IF i = Len(out[r]) THEN IsDone(out[r][i])
                  ELSE out[r][i].payload = "chat.completion.chunk"
      ELSE /\ IsCompletionResponse(response[r])
           /\ pc[r] = "done"
           /\ out[r] = <<>>

\* A request with stream: true whose upstream answered with JSON got one
\* chat.completion object.
C5_Witness ==
  \E r \in Reqs :
    /\ Succeeded(r)
    /\ StreamFlag(r)
    /\ upstream[r].contentType = JsonType
    /\ upstream[r].body # <<>>
    /\ IsCompletionResponse(response[r])

(***************************************************************************)
(* C6.  Upstream errors.                                                   *)
(***************************************************************************)
UpstreamFailed(r) ==
  /\ ~upstream[r].threw
  /\ upstream[r].status # 0
  /\ upstream[r].status \notin 200..299

\* C6: after an upstream response with a non-success status the client has
\* an error response with the upstream's status whose message holds the
\* upstream's body text, nothing was streamed or aggregated, and the
\* upstream was called once; no request calls it more than once.
C6_UpstreamErrorSurfaced ==
  \A r \in Reqs :
    /\ fetchCalls[r] <= 1
    /\ UpstreamFailed(r) =>
         /\ pc[r] = "done"
         /\ response[r].kind = "error"
         /\ response[r].status = upstream[r].status
         /\ response[r].body.code = "upstream_error"
         /\ response[r].body.message
              = <<"Upstream error ", upstream[r].status, ": ", FullText(r)>>
         /\ out[r] = <<>>
         /\ processed[r] = <<>>
         /\ flushes[r] = 0
         /\ fetchCalls[r] = 1

\* The upstream answered 500 with a body, and the client got a 500 error.
C6_Witness ==
  \E r \in Reqs :
    /\ UpstreamFailed(r)
    /\ upstream[r].status = 500
    /\ upstream[r].body # <<>>
    /\ response[r].status = 500

(***************************************************************************)
(* C7.  The request adapter.                                               *)
(***************************************************************************)
\* The client's body was parsed and handed to transformRequestToUpstream.
Adapted(r) == pc[r] \notin {"idle", "json"} /\ requestData[r] # JUndefined

\* The model the claim gives for a request: the request's model when it is
\* a non-empty string, the default one otherwise.
ClaimedModel(data) ==
  IF Get(data, Key_model).k = "string" /\ Get(data, Key_model).v # <<>>
  THEN Get(data, Key_model)
  ELSE JString(DEFAULT_MODEL)

\* C7: for every parsed client request transformRequestToUpstream has
\* returned a payload with task "chat", the request's messages as they are,
\* the claimed model, imageUrl null and the fixed settings.
C7_AdapterTotal ==
  \A r \in Reqs :
    Adapted(r) =>
      /\ upstreamPayload[r].task = "chat"
      /\ upstreamPayload[r].messages = Get(requestData[r], Key_messages)
      /\ upstreamPayload[r].model = ClaimedModel(requestData[r])
      /\ upstreamPayload[r].imageUrl = JNull
      /\ upstreamPayload[r].settings = FixedSettings
      /\ fetchCalls[r] = 1

(***************************************************************************)
(* C10.  Concurrent streams do not share state.                            *)
(***************************************************************************)
\* C10: with two streams under way, each stream's buffer is the text after
\* the last newline of its own upstream's bytes, its pending bytes are those
\* of its own upstream, and its frames are those of its own lines under its
\* own id, whatever the other stream has received.
C10_RequestIsolation ==
  \A r \in Reqs :
    (Streaming(r) \/ Closed(r)) =>
      /\ buffer[Closure(r)] = InOneChunk(r).buffer
      /\ decoder[Closure(r)] = InOneChunk(r).pending
      /\ processed[r] = InOneChunk(r).lines
      /\ out[r] = FramesOf(InOneChunk(r).enqueued)
                    \o (IF Closed(r) THEN FlushFrames(RequestId(r), ModelFor(r)) ELSE <<>>)
      /\ \A i \in 1..Len(out[r]) : IsDone(out[r][i]) \/ out[r][i].id = RequestId(r)

\* Two streams are under way, each in the middle of a line of its own.
C10_Witness ==
  /\ Cardinality(Reqs) = 2
  /\ \A r \in Reqs : Streaming(r) /\ buffer[Closure(r)] # <<>>
  /\ \E r, q \in Reqs :
       /\ upstream[r].body # upstream[q].body
       /\ buffer[Closure(r)] # buffer[Closure(q)]
       /\ Len(out[q]) = 1

(***************************************************************************)
(* C11.  The stream drops an unterminated last fragment.                   *)
(***************************************************************************)
\* The positions of the newlines of a text, and the text after the last one
\* (all of the text when it has none).
NewlinesOf(text) == {i \in 1..Len(text) : text[i] = LF}
AfterLastNewline(text) ==
  IF NewlinesOf(text) = {} THEN text
  ELSE SubSeq(text, (CHOOSE i \in NewlinesOf(text) : \A j \in NewlinesOf(text) : j <= i) + 1,
              Len(text))

\* The text of the bytes a stream has received.
ReceivedText(r) == Decode(Received(r)).text

\* C11: when a stream has ended whose upstream body ends with a non-empty
\* fragment without a newline, the fragment is still in the buffer, the loop
\* has run over the newline-terminated lines only, no content chunk comes
\* from the fragment, and the stop chunk and [DONE] were emitted after the
\* content chunks of those lines.
C11_TailDiscarded ==
  \A r \in Reqs :
    (Closed(r) /\ AfterLastNewline(ReceivedText(r)) # <<>>) =>
      /\ buffer[Closure(r)] = AfterLastNewline(ReceivedText(r))
      /\ Len(processed[r]) = Cardinality(NewlinesOf(ReceivedText(r)))
      /\ \A i \in 1..Len(outSrc[r]) :
           outSrc[r][i] <= Cardinality(NewlinesOf(ReceivedText(r)))
      /\ Len(out[r]) = Len(outSrc[r]) + 2
      /\ out[r][Len(out[r]) - 1] = FinalChunk(RequestId(r), ModelFor(r))
      /\ out[r][Len(out[r])] = DoneFrame

\* A stream has ended over a body whose last fragment is a complete valid
\* event without a newline: no content was streamed.
C11_Witness ==
  \E r \in Reqs :
    /\ Closed(r)
    /\ upstream[r].body = LineDone \o <<LF>> \o LineA
    /\ buffer[Closure(r)] = LineA
    /\ out[r] = <<FinalChunk(RequestId(r), ModelFor(r)), DoneFrame>>

(***************************************************************************)
(* C12.  The aggregator's per-line filter.                                 *)
(***************************************************************************)
\* The lines of the whole upstream body.
BodyLinesOf(r) == Split(FullText(r))

\* The content the stream transform emits for a line ("" when it emits
\* none): that of a data: line, not [DONE], that parses, with string content.
RelayedContent(line, r) == StreamedContent(RelayLine(line, RequestId(r), ModelFor(r)))

\* C12: the content of an aggregated response is the concatenation, in line
\* order, of the string contents of the lines the stream transform's filter
\* lets through; a line with absent or non-string content adds nothing.
C12_AggregatorSameFilter ==
  \A r \in Reqs :
    response[r].kind = "completion" =>
      response[r].body.content
        = Concat([i \in 1..Len(BodyLinesOf(r)) |-> RelayedContent(BodyLinesOf(r)[i], r)])

(***************************************************************************)
(* C13.  The stream transform's per-line emission rule.                    *)
(***************************************************************************)
\* The payload of a data: line, and choices[0].delta.content of the payload
\* (undefined when the payload does not parse or has no such member).
PayloadOf(line) == Trim(Substring(line, 5))
EventContentOf(line) ==
  Get(Get(GetIndex0(Get(JSONParse(PayloadOf(line)).val, Key_choices)), Key_delta),
      Key_content)

\* The rule's condition on a line.
EmitsByRule(line) ==
  /\ StartsWith(line, DataPrefix)
  /\ PayloadOf(line) # DoneToken
  /\ JSONParse(PayloadOf(line)).ok
  /\ EventContentOf(line).k = "string"

\* The frames that come from the i-th line of a stream.
FramesFrom(r, i) == {j \in 1..Len(outSrc[r]) : outSrc[r][j] = i}

\* C13: a line the loop has run over has exactly one chunk, with the line's
\* content as delta.content and finish_reason null, when it starts with
\* data:, its payload is not [DONE] and parses, and choices[0].delta.content
\* is a string (the empty string too); every other line has none.
C13_EmissionRule ==
  \A r \in Reqs :
    (Streaming(r) \/ Closed(r)) =>
      \A i \in 1..Len(processed[r]) :
        IF EmitsByRule(processed[r][i])
        THEN \E j \in 1..Len(outSrc[r]) :
               /\ FramesFrom(r, i) = {j}
               /\ out[r][j] = ContentChunk(RequestId(r), ModelFor(r),
                                           EventContentOf(processed[r][i]).v)
               /\ out[r][j].finish_reason = JNull
               /\ ContentOf(out[r][j]) = EventContentOf(processed[r][i]).v
        ELSE FramesFrom(r, i) = {}

\* A stream has ended over one line with the empty string as content: it
\* has one content chunk, with empty content.
C13_Witness ==
  \E r \in Reqs :
    /\ Closed(r)
    /\ upstream[r].body = LineEmptyContent \o <<LF>>
    /\ Len(out[r]) = 3
    /\ IsContent(out[r][1])
    /\ ContentOf(out[r][1]) = <<>>

(***************************************************************************)
(* C14.  Exceptions while handling a chat request.                         *)
(***************************************************************************)
\* handleChatCompletions was called for the request and has got past
\* `await request.json()`.
ChatHandled(r) ==
  /\ pc[r] \notin {"idle", "json"}
  /\ request[r].method # "OPTIONS"
  /\ request[r].path = PathChat
  /\ request[r].auth = GoodAuth

IsInternalError(res) ==
  /\ res.kind = "error"
  /\ res.status = 500
  /\ res.body.code = "internal_server_error"

\* C14: a chat request whose body is not JSON, or is null, or whose upstream
\* call threw, is answered 500 internal_server_error; in the first two cases
\* no upstream call was made, and in none was anything streamed.
C14_ExceptionsAnswered500 ==
  \A r \in Reqs :
    ChatHandled(r) =>
      /\ ~JSONParse(request[r].body).ok =>
           /\ IsInternalError(response[r])
           /\ fetchCalls[r] = 0
           /\ upstream[r] = NoUpstream
           /\ pc[r] = "done"
      /\ requestData[r] = JNull =>
           /\ IsInternalError(response[r])
           /\ fetchCalls[r] = 0
           /\ pc[r] = "done"
      /\ upstream[r].threw =>
           /\ IsInternalError(response[r])
           /\ fetchCalls[r] = 1
           /\ out[r] = <<>>
           /\ pc[r] = "done"

\* A chat request with a body that is not JSON was answered 500 without an
\* upstream call.
C14_Witness ==
  \E r \in Reqs :
    /\ ChatHandled(r)
    /\ ~JSONParse(request[r].body).ok
    /\ IsInternalError(response[r])
    /\ fetchCalls[r] = 0

(***************************************************************************)
(* C15.  The aggregator takes the unterminated last segment too.           *)
(***************************************************************************)
\* A text up to and with its last newline.
ThroughLastNewline(text) == SubSeq(text, 1, Len(text) - Len(AfterLastNewline(text)))

\* C15: the content of an aggregated response is the content aggregated
\* from the body up to its last newline, followed by the string content of
\* the segment after the last newline when that segment is a valid data:
\* event.
C15_AggregatorTakesTail ==
  \A r \in Reqs :
    response[r].kind = "completion" =>
      response[r].body.content
        = transformNonStreamResponse(ThroughLastNewline(FullText(r)), RequestId(r),
                                     ModelFor(r)).content
            \o RelayedContent(AfterLastNewline(FullText(r)), r)

\* An aggregated response over a body whose last event has no newline ends
\* with that event's content.
C15_Witness ==
  \E r \in Reqs :
    /\ response[r].kind = "completion"
    /\ upstream[r].body = LineA \o <<LF>> \o LineOmega
    /\ response[r].body.content = <<"a", OMEGA>>

(***************************************************************************)
(* C16.  An upstream [DONE] line does not end the processing.              *)
(***************************************************************************)
\* A text without its data: [DONE] lines (each goes with its newline).
WithoutDone(text) ==
  Concat([i \in 1..Len(Split(text)) |->
            IF i \in DoneLines(text) THEN <<>>
            ELSE Split(text)[i] \o (IF i < Len(Split(text)) THEN <<LF>> ELSE <<>>)])

\* C16: a stream that has ended has put out exactly what it puts out for
\* the body without its [DONE] lines, so the content lines after a [DONE]
\* line are emitted, in order, like those before it; and an aggregated
\* response has the content it has for the body without them.
C16_DoneDoesNotEndProcessing ==
  \A r \in Reqs :
    /\ Closed(r) =>
         /\ out[r] = RelayOfText(WithoutDone(FullText(r)), r)
                       \o FlushFrames(RequestId(r), ModelFor(r))
         /\ \A i \in 1..Len(processed[r]) :
              Cardinality(FramesFrom(r, i))
                = Len(RelayLine(processed[r][i], RequestId(r), ModelFor(r)))
    /\ response[r].kind = "completion" =>
         response[r].body.content
           = transformNonStreamResponse(WithoutDone(FullText(r)), RequestId(r),
                                        ModelFor(r)).content

\* A stream has ended over a body with a content line after a [DONE] line,
\* and the content was streamed.
C16_Witness ==
  \E r \in Reqs :
    /\ Closed(r)
    /\ upstream[r].body = LineDone \o <<LF>> \o LineA \o <<LF>>
    /\ outSrc[r] = <<2>>
    /\ StreamedContent(out[r]) = <<"a">>

(***************************************************************************)
(* C17.  No upstream call without authentication.                          *)
(***************************************************************************)
\* The request was received, and it is under /v1/.
Received_V1(r) == pc[r] # "idle" /\ StartsWith(request[r].path, V1Prefix)

HasBearer(q) == q.auth.present /\ StartsWith(q.auth.value, BearerPrefix)
TokenOf(q) == SubSeq(q.auth.value, Len(BearerPrefix) + 1, Len(q.auth.value))

\* handleChatCompletions was not reached, nor the upstream.
NotHandled(r) ==
  /\ pc[r] = "done"
  /\ requestData[r] = JUndefined
  /\ upstreamPayload[r] = NoPayload
  /\ fetchCalls[r] = 0
  /\ upstream[r] = NoUpstream
  /\ out[r] = <<>>

\* C17: a request under /v1/ that is OPTIONS is answered 204; another one
\* without a Bearer Authorization header 401; another one whose token is not
\* the master key 403; an authenticated one for /v1/models 200 and for an
\* unknown path 404; in all these cases handleChatCompletions and the
\* upstream are not reached.  An upstream call is only made for an
\* authenticated chat request.
C17_NoUpstreamWithoutAuth ==
  \A r \in Reqs :
    /\ Received_V1(r) =>
         IF request[r].method = "OPTIONS"
         THEN response[r].status = 204 /\ NotHandled(r)
         ELSE IF ~HasBearer(request[r])
         THEN /\ response[r].status = 401
              /\ response[r].body.code = "unauthorized"
              /\ NotHandled(r)
         ELSE IF TokenOf(request[r]) # API_MASTER_KEY
         THEN /\ response[r].status = 403
              /\ response[r].body.code = "invalid_api_key"
              /\ NotHandled(r)
         ELSE IF request[r].path = PathModels
         THEN response[r].status = 200 /\ response[r].kind = "models" /\ NotHandled(r)
         ELSE IF request[r].path # PathChat
         THEN response[r].status = 404 /\ NotHandled(r)
         ELSE TRUE
    /\ (fetchCalls[r] > 0 \/ pc[r] = "json") =>
         /\ request[r].method # "OPTIONS"
         /\ request[r].path = PathChat
         /\ HasBearer(request[r])
         /\ TokenOf(request[r]) = API_MASTER_KEY

\* A chat request with a wrong token was answered 403 and went no further.
C17_Witness ==
  \E r \in Reqs :
    /\ Received_V1(r)
    /\ request[r].method = "POST"
    /\ request[r].path = PathChat
    /\ HasBearer(request[r])
    /\ TokenOf(request[r]) # API_MASTER_KEY
    /\ response[r].status = 403
    /\ NotHandled(r)

(***************************************************************************)
(* C18.  The buffer between transform steps.                               *)
(***************************************************************************)
\* The lines the loop has run over, each with its newline, as one text.
YieldedText(r) == Concat([i \in 1..Len(processed[r]) |-> processed[r][i] \o <<LF>>])

\* C18: after every transform step the buffer holds no newline and is the
\* text received so far after its last newline (empty when that text is
\* empty or ends with a newline); the lines yielded, each with its newline,
\* followed by the buffer are the text received, so that no character is
\* both in a yielded line and in the buffer, and none is in neither.
C18_BufferInvariant ==
  \A r \in Reqs :
    (Streaming(r) \/ Closed(r)) =>
      /\ \A i \in 1..Len(buffer[Closure(r)]) : buffer[Closure(r)][i] # LF
      /\ buffer[Closure(r)] = AfterLastNewline(ReceivedText(r))
      /\ (ReceivedText(r) = <<>> \/ ReceivedText(r)[Len(ReceivedText(r))] = LF)
           => buffer[Closure(r)] = <<>>
      /\ YieldedText(r) \o buffer[Closure(r)] = ReceivedText(r)
      /\ Len(YieldedText(r)) + Len(buffer[Closure(r)]) = Len(ReceivedText(r))

\* A chunk ended on a line boundary in the middle of the body: the line was
\* yielded and the buffer is empty.
C18_Witness ==
  \E r \in Reqs :
    /\ Streaming(r)
    /\ upstream[r].body = LineA \o <<LF>> \o LineOmega
    /\ upPos[r] = Len(LineA) + 1
    /\ processed[r] = <<LineA>>
    /\ buffer[Closure(r)] = <<>>

====
